---- MODULE Spec2Model ----
(***************************************************************************)
(* Model of maturin's CI generator (src/ci.rs): GenerateCI::generate_github *)
(* and GenerateCI::generate_gitlab.                                         *)
(*                                                                          *)
(* The generated text is modelled as the sequence of blocks the code        *)
(* appends to `conf`: the header, one block per iteration of the platform   *)
(* loop, the sdist job, and the fragments of the release job.  A platform   *)
(* job's block holds its name, its matrix and its steps, one record per     *)
(* push_str / format! fragment in the order the code appends them.  A       *)
(* record's field k names the fragment; the other fields carry what the     *)
(* fragment interpolates.                                                   *)
(***************************************************************************)
EXTENDS Naturals, Sequences, FiniteSets

VARIABLES
    platforms,      \* GenerateCI.platforms : Vec<Platform>
    pytest,         \* GenerateCI.pytest
    zig,            \* GenerateCI.zig
    manifest_path,  \* GenerateCI.manifest_path : Option<PathBuf>, <<>> or <<path>>
    project_name,   \* argument project_name
    bridge_model,   \* argument bridge_model
    sdist,          \* argument sdist
    argv,           \* std::env::args() of the running process
    pc,             \* "idle" | "github" | "gitlab": which generator has returned
    result          \* what the call returned: Ok(conf) or a panic

vars == <<platforms, pytest, zig, manifest_path, project_name, bridge_model,
          sdist, argv, pc, result>>

----------------------------------------------------------------------------
(* Bounds of the model *)

\* longest requested platform list
MaxPlatforms == 2

----------------------------------------------------------------------------
(* enum Platform, in declaration order (derive(PartialOrd, Ord)) *)

Platform == {"All", "ManyLinux", "Musllinux", "Windows", "Macos", "Emscripten"}

\* the derived Ord of Platform: position in the declaration
PlatformOrd(p) ==
    CASE p = "All" -> 0
      [] p = "ManyLinux" -> 1
      [] p = "Musllinux" -> 2
      [] p = "Windows" -> 3
      [] p = "Macos" -> 4
      [] p = "Emscripten" -> 5

\* Platform::defaults()
PlatformDefaults == <<"ManyLinux", "Musllinux", "Windows", "Macos">>

\* Platform::all()
PlatformAll == <<"ManyLinux", "Musllinux", "Windows", "Macos", "Emscripten">>

\* Display with Musllinux written like ManyLinux
DisplayMuslAsLinux(p) ==
    CASE p = "All" -> "all"
      [] p = "ManyLinux" -> "linux"
      [] p = "Musllinux" -> "linux"
      [] p = "Windows" -> "windows"
      [] p = "Macos" -> "macos"
      [] p = "Emscripten" -> "emscripten"

\* impl Display for Platform
Display(p) ==
    CASE p = "All" -> "all"
      [] p = "ManyLinux" -> "linux"
      [] p = "Musllinux" -> "musllinux"
      [] p = "Windows" -> "windows"
      [] p = "Macos" -> "macos"
      [] p = "Emscripten" -> "emscripten"

----------------------------------------------------------------------------
(* BridgeModel (crate::BridgeModel): Bin(None), Bin(Some(_)), Bindings(..), *)
(* BindingsAbi3(..), Cffi, UniFfi                                           *)

BridgeModel == {"BinNone", "BinSome", "Bindings", "BindingsAbi3", "Cffi", "UniFfi"}

\* BridgeModel::is_bin
IsBin(b) == b \in {"BinNone", "BinSome"}

\* let is_abi3 = matches!(bridge_model, BridgeModel::BindingsAbi3(..))
IsAbi3(b) == b = "BindingsAbi3"

\* SetupPython with BindingsAbi3 left out of the matches! list
SetupPythonNoAbi3(py, b) ==
    py \/ b \in {"BinSome", "Bindings", "Cffi", "UniFfi"}

\* SetupPython decided by the pytest flag alone
SetupPythonPytestOnly(py, b) == py

\* SetupPython with Bin(Some(_)) treated like Bin(None)
SetupPythonBinOnDemand(py, b) ==
    py \/ b \in {"Bindings", "BindingsAbi3", "Cffi", "UniFfi"}

\* let setup_python = self.pytest || matches!(bridge_model, Bin(Some(_)) | ...)
SetupPython(py, b) ==
    py \/ b \in {"BinSome", "Bindings", "BindingsAbi3", "Cffi", "UniFfi"}

----------------------------------------------------------------------------
(* Paths: a path is its root flag and its list of normal components.        *)
(* Option<PathBuf> is <<>> (None) or <<path>> (Some(path)).                 *)

MkPath(root, comps) == [root |-> root, comps |-> comps]

\* Path::new("Cargo.toml")
CargoToml == MkPath(FALSE, <<"Cargo.toml">>)

\* Path::parent: None when the path ends in a root or is empty
Parent(p) ==
    IF p.comps = <<>> THEN <<>>
    ELSE <<MkPath(p.root, SubSeq(p.comps, 1, Len(p.comps) - 1))>>

\* the `if let Some(manifest_path) ... if manifest_path != Path::new("Cargo.toml")` test
NonDefaultManifest(mp) == mp # <<>> /\ mp[1] # CargoToml

----------------------------------------------------------------------------
(* Sequence helpers *)

RECURSIVE Flatten(_)
\* concatenation of a sequence of sequences
Flatten(ss) == IF ss = <<>> THEN <<>> ELSE Head(ss) \o Flatten(Tail(ss))

\* the elements of a sequence
Range(s) == {s[i] : i \in DOMAIN s}

RECURSIVE Join(_, _)
\* Vec<String>::join(sep), as the list of tokens and separators
Join(s, sep) ==
    IF Len(s) <= 1 THEN s ELSE <<Head(s), sep>> \o Join(Tail(s), sep)

RECURSIVE BTreeIter(_)
\* iteration over a BTreeSet<Platform>: ascending in the derived Ord
BTreeIter(S) ==
    IF S = {} THEN <<>>
    ELSE LET m == CHOOSE x \in S : \A y \in S : PlatformOrd(x) <= PlatformOrd(y)
         IN <<m>> \o BTreeIter(S \ {m})

----------------------------------------------------------------------------
(* The header: version and regeneration hint *)

\* Path::display: the root, then the components separated by "/"
PathDisplay(p) == (IF p.root THEN <<"/">> ELSE <<>>) \o Join(p.comps, "/")

\* std::env::args() with argument 0 replaced by CARGO_PKG_NAME
ArgsRenamed(av) == [i \in DOMAIN av |-> IF i = 1 THEN "maturin" ELSE av[i]]

RECURSIVE JoinStr(_, _)
\* Vec<String>::join(sep): one string, the words separated by sep
JoinStr(words, sep) ==
    IF words = <<>> THEN ""
    ELSE IF Len(words) = 1 THEN words[1]
    ELSE words[1] \o sep \o JoinStr(Tail(words), sep)

\* str::starts_with(prefix), character by character
StrStartsWith(s, prefix) ==
    Len(prefix) <= Len(s) /\ SubSeq(s, 1, Len(prefix)) = prefix

\* gen_cmd.starts_with("maturin new") || gen_cmd.starts_with("maturin init"),
\* on the joined command line
IsNewOrInit(gen_cmd) ==
    StrStartsWith(gen_cmd, "maturin new") \/ StrStartsWith(gen_cmd, "maturin init")

\* let mut gen_cmd = <args>.join(" "); if gen_cmd.starts_with(..) { gen_cmd = format!(..) }
GenCmd(av, provider) ==
    LET gen_cmd == JoinStr(ArgsRenamed(av), " ")
    IN IF IsNewOrInit(gen_cmd)
       THEN "maturin" \o " generate-ci " \o provider
       ELSE gen_cmd

\* "# This file is autogenerated by maturin v{version} ... {gen_cmd}" and the
\* fixed preamble up to "jobs:"
GithubHeader(av) ==
    [k |-> "header", version |-> "CARGO_PKG_VERSION", gen_cmd |-> GenCmd(av, "github")]

----------------------------------------------------------------------------
(* Platform expansion *)

\* ExpandOne that keeps All next to its expansion
ExpandOneKeepsAll(p, b) ==
    IF p = "All"
    THEN <<p>> \o (IF ~IsBin(b) THEN PlatformAll ELSE PlatformDefaults)
    ELSE <<p>>

\* ExpandOne with the two expansions of All exchanged
ExpandOneSwapped(p, b) ==
    IF p = "All"
    THEN IF IsBin(b) THEN PlatformAll ELSE PlatformDefaults
    ELSE <<p>>

\* the closure of flat_map: All expands by bridge model, others pass through
ExpandOne(p, b) ==
    IF p = "All"
    THEN IF ~IsBin(b) THEN PlatformAll ELSE PlatformDefaults
    ELSE <<p>>

\* let platforms: BTreeSet<_> = self.platforms.iter().flat_map(..).collect()
ExpandPlatforms(ps, b) ==
    Range(Flatten([i \in DOMAIN ps |-> ExpandOne(ps[i], b)]))

\* Skipped without the override: no platform is skipped
SkippedNever(platform, b) == FALSE

\* if bridge_model.is_bin() && matches!(platform, Platform::Emscripten) { continue; }
Skipped(platform, b) == IsBin(b) /\ platform = "Emscripten"

\* JobPlatforms over a Vec instead of a BTreeSet: request order, repetitions kept
JobPlatformsVec(ps, b) ==
    LET Runs(p) == ~Skipped(p, b)
    IN SelectSeq(Flatten([i \in DOMAIN ps |-> ExpandOne(ps[i], b)]), Runs)

\* the platforms whose loop body runs, in iteration order
JobPlatforms(ps, b) ==
    LET Runs(p) == ~Skipped(p, b)
    IN SelectSeq(BTreeIter(ExpandPlatforms(ps, b)), Runs)

----------------------------------------------------------------------------
(* Target matrix *)

\* .map(|target| MatrixPlatform { runner, target })
OnRunner(runner, targets) ==
    [i \in DOMAIN targets |-> [runner |-> runner, target |-> targets[i]]]

\* Targets with ppc64le missing from ManyLinux and both Macos entries on one runner
TargetsShort(platform) ==
    CASE platform = "ManyLinux" ->
            OnRunner("ubuntu-latest", <<"x86_64", "x86", "aarch64", "armv7", "s390x">>)
      [] platform = "Musllinux" ->
            OnRunner("ubuntu-latest", <<"x86_64", "x86", "aarch64", "armv7">>)
      [] platform = "Windows" ->
            OnRunner("windows-latest", <<"x64", "x86">>)
      [] platform = "Macos" ->
            OnRunner("macos-12", <<"x86_64", "aarch64">>)
      [] platform = "Emscripten" ->
            <<[runner |-> "ubuntu-latest", target |-> "wasm32-unknown-emscripten"]>>
      [] OTHER -> <<>>

\* Targets with the Musllinux list cut to the targets without x86
TargetsMuslNoX86(platform) ==
    CASE platform = "ManyLinux" ->
            OnRunner("ubuntu-latest", <<"x86_64", "x86", "aarch64", "armv7", "s390x", "ppc64le">>)
      [] platform = "Musllinux" ->
            OnRunner("ubuntu-latest", <<"x86_64", "aarch64", "armv7">>)
      [] platform = "Windows" ->
            OnRunner("windows-latest", <<"x64", "x86">>)
      [] platform = "Macos" ->
            <<[runner |-> "macos-12", target |-> "x86_64"],
              [runner |-> "macos-14", target |-> "aarch64"]>>
      [] platform = "Emscripten" ->
            <<[runner |-> "ubuntu-latest", target |-> "wasm32-unknown-emscripten"]>>
      [] OTHER -> <<>>

\* Targets with an aarch64 entry in the Windows list
TargetsWindowsArm(platform) ==
    CASE platform = "ManyLinux" ->
            OnRunner("ubuntu-latest", <<"x86_64", "x86", "aarch64", "armv7", "s390x", "ppc64le">>)
      [] platform = "Musllinux" ->
            OnRunner("ubuntu-latest", <<"x86_64", "x86", "aarch64", "armv7">>)
      [] platform = "Windows" ->
            OnRunner("windows-latest", <<"x64", "x86", "aarch64">>)
      [] platform = "Macos" ->
            <<[runner |-> "macos-12", target |-> "x86_64"],
              [runner |-> "macos-14", target |-> "aarch64"]>>
      [] platform = "Emscripten" ->
            <<[runner |-> "ubuntu-latest", target |-> "wasm32-unknown-emscripten"]>>
      [] OTHER -> <<>>

\* let targets: Vec<_> = match platform { ... }
Targets(platform) ==
    CASE platform = "ManyLinux" ->
            OnRunner("ubuntu-latest", <<"x86_64", "x86", "aarch64", "armv7", "s390x", "ppc64le">>)
      [] platform = "Musllinux" ->
            OnRunner("ubuntu-latest", <<"x86_64", "x86", "aarch64", "armv7">>)
      [] platform = "Windows" ->
            OnRunner("windows-latest", <<"x64", "x86">>)
      [] platform = "Macos" ->
            <<[runner |-> "macos-12", target |-> "x86_64"],
              [runner |-> "macos-14", target |-> "aarch64"]>>
      [] platform = "Emscripten" ->
            <<[runner |-> "ubuntu-latest", target |-> "wasm32-unknown-emscripten"]>>
      [] OTHER -> <<>>

----------------------------------------------------------------------------
(* Job steps.  c is the call's configuration: the GenerateCI fields         *)
(* platforms, pytest, zig, manifest_path and the arguments project_name,    *)
(* bridge_model, sdist, with argv the process's arguments.                  *)

\* "steps: - uses: actions/checkout@v4"
Checkout == [k |-> "checkout"]

\* EmscriptenSetup with the runtime selected before the versions are derived
EmscriptenSetupPythonFirst ==
    << [k |-> "run", cmd |-> "pip install pyodide-build"],
       [k |-> "setup-python", version |-> "env.PYTHON_VERSION"],
       [k |-> "version-info", sets |-> {"EMSCRIPTEN_VERSION", "PYTHON_VERSION"}],
       [k |-> "setup-emsdk", version |-> "env.EMSCRIPTEN_VERSION"],
       [k |-> "run", cmd |-> "pip install pyodide-build"] >>

\* the Emscripten branch of the setup: pyodide-build, version info, emsdk,
\* setup-python at the derived version, pyodide-build again
EmscriptenSetup ==
    << [k |-> "run", cmd |-> "pip install pyodide-build"],
       [k |-> "version-info", sets |-> {"EMSCRIPTEN_VERSION", "PYTHON_VERSION"}],
       [k |-> "setup-emsdk", version |-> "env.EMSCRIPTEN_VERSION"],
       [k |-> "setup-python", version |-> "env.PYTHON_VERSION"],
       [k |-> "run", cmd |-> "pip install pyodide-build"] >>

\* the else branch: setup python on demand, architecture pinned on Windows
HostSetup(platform, setup_python) ==
    IF setup_python
    THEN <<[k |-> "setup-python", version |-> "3.x"]>>
         \o (IF platform = "Windows"
             THEN <<[k |-> "architecture", value |-> "matrix.platform.target"]>>
             ELSE <<>>)
    ELSE <<>>

\* if matches!(platform, Platform::Emscripten) { ... } else { ... }
SetupChunks(platform, setup_python) ==
    IF platform = "Emscripten" THEN EmscriptenSetup ELSE HostSetup(platform, setup_python)

\* InterpreterArgs that never detects the interpreter for a Bin bridge model
InterpreterArgsBinNever(platform, b, setup_python) ==
    IF IsAbi3(b) \/ IsBin(b) THEN <<>>
    ELSE IF platform = "Emscripten" THEN <<"-i", "env.PYTHON_VERSION">>
    ELSE <<"--find-interpreter">>

\* InterpreterArgs without the is_abi3 test
InterpreterArgsNoAbi3(platform, b, setup_python) ==
    IF IsBin(b) /\ ~setup_python THEN <<>>
    ELSE IF platform = "Emscripten" THEN <<"-i", "env.PYTHON_VERSION">>
    ELSE <<"--find-interpreter">>

\* InterpreterArgs without the Emscripten branch
InterpreterArgsDetectAlways(platform, b, setup_python) ==
    IF IsAbi3(b) \/ (IsBin(b) /\ ~setup_python) THEN <<>>
    ELSE <<"--find-interpreter">>

\* let mut maturin_args = if is_abi3 || (is_bin && !setup_python) { .. } else if .. { .. } else { .. }
InterpreterArgs(platform, b, setup_python) ==
    IF IsAbi3(b) \/ (IsBin(b) /\ ~setup_python) THEN <<>>
    ELSE IF platform = "Emscripten" THEN <<"-i", "env.PYTHON_VERSION">>
    ELSE <<"--find-interpreter">>

\* ManifestArgs without the comparison with Cargo.toml
ManifestArgsAlways(mp) ==
    IF mp # <<>> THEN <<"--manifest-path", PathDisplay(mp[1])>> ELSE <<>>

\* maturin_args.push("--manifest-path"); maturin_args.push(manifest_path.display())
ManifestArgs(mp) ==
    IF NonDefaultManifest(mp) THEN <<"--manifest-path", PathDisplay(mp[1])>> ELSE <<>>

\* ZigArgs without the platform test
ZigArgsEveryPlatform(platform, z) == IF z THEN <<"--zig">> ELSE <<>>

\* if self.zig && matches!(platform, Platform::ManyLinux) { maturin_args.push("--zig") }
ZigArgs(platform, z) == IF z /\ platform = "ManyLinux" THEN <<"--zig">> ELSE <<>>

\* the maturin_args of one platform job
MaturinArgs(platform, c) ==
    InterpreterArgs(platform, c.bridge_model, SetupPython(c.pytest, c.bridge_model))
    \o ManifestArgs(c.manifest_path)
    \o ZigArgs(platform, c.zig)

\* "- name: Build wheels ... args: --release --out dist{maturin_args}"
BuildStep(platform, c) ==
    [k |-> "build", args |-> <<"--release", "--out", "dist">> \o MaturinArgs(platform, c)]

\* BuildOption with the ManyLinux tag on both Linux platforms
BuildOptionSameTag(platform) ==
    CASE platform = "ManyLinux" -> <<[k |-> "manylinux", value |-> "auto"]>>
      [] platform = "Musllinux" -> <<[k |-> "manylinux", value |-> "auto"]>>
      [] platform = "Emscripten" -> <<[k |-> "rust-toolchain", value |-> "nightly"]>>
      [] OTHER -> <<>>

\* match platform { ManyLinux => "manylinux: auto", Musllinux => .., Emscripten => .., _ => {} }
BuildOption(platform) ==
    CASE platform = "ManyLinux" -> <<[k |-> "manylinux", value |-> "auto"]>>
      [] platform = "Musllinux" -> <<[k |-> "manylinux", value |-> "musllinux_1_2"]>>
      [] platform = "Emscripten" -> <<[k |-> "rust-toolchain", value |-> "nightly"]>>
      [] OTHER -> <<>>

\* ArtifactName without the Emscripten arm
ArtifactNameAllWheels(platform) ==
    <<"wheels", "-", Display(platform), "-", "matrix.platform.target">>

\* let artifact_name = match platform { Emscripten => "wasm-wheels", _ => "wheels-{platform}-${{ .. }}" }
ArtifactName(platform) ==
    IF platform = "Emscripten" THEN <<"wasm-wheels">>
    ELSE <<"wheels", "-", Display(platform), "-", "matrix.platform.target">>

\* "- name: Upload wheels ... name: {artifact_name}"
UploadStep(platform) == [k |-> "upload", name |-> ArtifactName(platform)]

\* manifest_path.parent().unwrap() panics: the manifest path is not the
\* default one and has no parent
ChdirPanics(mp) == NonDefaultManifest(mp) /\ Parent(mp[1]) = <<>>

\* let mut chdir = String::new(); ... chdir = format!("cd {} && ", parent.display())
Chdir(mp) ==
    IF NonDefaultManifest(mp) /\ Parent(mp[1]) # <<>>
    THEN <<"cd", PathDisplay(Parent(mp[1])[1]), "&&">>
    ELSE <<>>

\* one "- name: pytest" step: its guard, how it is run, and the command line
PytestStep(guard, via, distro, c, cmd) ==
    [k |-> "pytest", guard |-> guard, via |-> via, distro |-> distro,
     install |-> c.project_name, run |-> Chdir(c.manifest_path) \o cmd]

\* TestChunks with the Macos step guarded like the Windows one and a single
\* ManyLinux step
TestChunksMacosGuarded(platform, c) ==
    IF ~c.pytest THEN <<>>
    ELSE CASE platform = "ManyLinux" ->
                << PytestStep("startsWith(matrix.platform.target, 'x86_64')",
                              "bash", "", c, <<"pytest">>) >>
           [] platform = "Musllinux" ->
                << PytestStep("startsWith(matrix.platform.target, 'x86_64')",
                              "addnab/docker-run-action@v3", "alpine:latest", c, <<"pytest">>),
                   PytestStep("!startsWith(matrix.platform.target, 'x86')",
                              "uraimo/run-on-arch-action@v2", "alpine_latest", c, <<"pytest">>) >>
           [] platform = "Windows" ->
                << PytestStep("!startsWith(matrix.platform.target, 'aarch64')",
                              "bash", "", c, <<"pytest">>) >>
           [] platform = "Macos" ->
                << PytestStep("!startsWith(matrix.platform.target, 'aarch64')",
                              "bash", "", c, <<"pytest">>) >>
           [] platform = "Emscripten" ->
                << [k |-> "setup-node", version |-> "18"],
                   PytestStep("", "pyodide venv", "", c, <<"python", "-m", "pytest">>) >>
           [] OTHER -> <<>>

\* if self.pytest { match platform { ... } }
TestChunks(platform, c) ==
    IF ~c.pytest THEN <<>>
    ELSE CASE platform = "ManyLinux" ->
                << PytestStep("startsWith(matrix.platform.target, 'x86_64')",
                              "bash", "", c, <<"pytest">>),
                   PytestStep("!startsWith(matrix.platform.target, 'x86') && matrix.platform.target != 'ppc64'",
                              "uraimo/run-on-arch-action@v2", "ubuntu22.04", c, <<"pytest">>) >>
           [] platform = "Musllinux" ->
                << PytestStep("startsWith(matrix.platform.target, 'x86_64')",
                              "addnab/docker-run-action@v3", "alpine:latest", c, <<"pytest">>),
                   PytestStep("!startsWith(matrix.platform.target, 'x86')",
                              "uraimo/run-on-arch-action@v2", "alpine_latest", c, <<"pytest">>) >>
           [] platform = "Windows" ->
                << PytestStep("!startsWith(matrix.platform.target, 'aarch64')",
                              "bash", "", c, <<"pytest">>) >>
           [] platform = "Macos" ->
                << PytestStep("", "", "", c, <<"pytest">>) >>
           [] platform = "Emscripten" ->
                << [k |-> "setup-node", version |-> "18"],
                   PytestStep("", "pyodide venv", "", c, <<"python", "-m", "pytest">>) >>
           [] OTHER -> <<>>

\* JobSteps with the test steps written before the upload step
JobStepsTestFirst(platform, c) ==
    <<Checkout>>
    \o SetupChunks(platform, SetupPython(c.pytest, c.bridge_model))
    \o <<BuildStep(platform, c)>>
    \o BuildOption(platform)
    \o TestChunks(platform, c)
    \o <<UploadStep(platform)>>

\* the steps of one platform job, in the order they are appended
JobSteps(platform, c) ==
    <<Checkout>>
    \o SetupChunks(platform, SetupPython(c.pytest, c.bridge_model))
    \o <<BuildStep(platform, c)>>
    \o BuildOption(platform)
    \o <<UploadStep(platform)>>
    \o TestChunks(platform, c)

\* one iteration of `for platform in &platforms` that is not skipped:
\* "{plat_name}: runs-on: ${{ matrix.platform.runner }}", the strategy matrix
\* (written when targets is not empty), the steps, and the closing '\n'
PlatformJob(platform, c) ==
    [k |-> "job", name |-> Display(platform), runs_on |-> "matrix.platform.runner",
     strategy |-> Targets(platform) # <<>>, matrix |-> Targets(platform),
     steps |-> JobSteps(platform, c)]

----------------------------------------------------------------------------
(* The sdist job and the release job *)

\* the sdist job's maturin_args
SdistArgs(mp) ==
    IF mp # <<>>
    THEN IF mp[1] # CargoToml THEN <<"--manifest-path", PathDisplay(mp[1])>> ELSE <<>>
    ELSE <<>>

\* SdistJob emitted whatever the sdist argument
SdistJobAlways(c) ==
    << [k |-> "sdist", name |-> "sdist", runs_on |-> "ubuntu-latest",
        steps |-> << Checkout,
                     [k |-> "build-sdist",
                      args |-> <<"--out", "dist">> \o SdistArgs(c.manifest_path)],
                     [k |-> "upload", name |-> <<"wheels", "-", "sdist">>] >>] >>

\* if sdist { ... }: the job header with its checkout and build step, the upload step, '\n'
SdistJob(c) ==
    IF c.sdist
    THEN << [k |-> "sdist", name |-> "sdist", runs_on |-> "ubuntu-latest",
             steps |-> << Checkout,
                          [k |-> "build-sdist",
                           args |-> <<"--out", "dist">> \o SdistArgs(c.manifest_path)],
                          [k |-> "upload", name |-> <<"wheels", "-", "sdist">>] >>] >>
    ELSE <<>>

\* Needs with the name pushed before the skip of Emscripten
NeedsBeforeSkip(c) ==
    LET all == BTreeIter(ExpandPlatforms(c.platforms, c.bridge_model))
    IN [i \in DOMAIN all |-> Display(all[i])]
       \o (IF c.sdist THEN <<"sdist">> ELSE <<>>)

\* Needs with "sdist" pushed before the platform jobs
NeedsSdistFirst(c) ==
    LET jobs == JobPlatforms(c.platforms, c.bridge_model)
    IN (IF c.sdist THEN <<"sdist">> ELSE <<>>)
       \o [i \in DOMAIN jobs |-> Display(jobs[i])]

\* needs after the loop and the sdist block
Needs(c) ==
    LET jobs == JobPlatforms(c.platforms, c.bridge_model)
    IN [i \in DOMAIN jobs |-> Display(jobs[i])]
       \o (IF c.sdist THEN <<"sdist">> ELSE <<>>)

\* platforms.contains(&Platform::Emscripten)
ContainsEmscripten(c) == "Emscripten" \in ExpandPlatforms(c.platforms, c.bridge_model)

\* ReleaseJob with the publish step written before the download step
ReleaseJobPublishFirst(c) ==
    << [k |-> "release", name |-> "release", runs_on |-> "ubuntu-latest",
        guard |-> "startsWith(github.ref, 'refs/tags/')", needs |-> Needs(c)] >>
    \o (IF ContainsEmscripten(c) THEN <<[k |-> "permissions", contents |-> "write"]>> ELSE <<>>)
    \o << [k |-> "publish", args |-> <<"--non-interactive", "--skip-existing", "wheels-*/*">>],
          [k |-> "download"] >>
    \o (IF ContainsEmscripten(c)
        THEN <<[k |-> "github-release", files |-> "wasm-wheels/*.whl"]>>
        ELSE <<>>)

\* the release job: header with needs, permissions, download + publish, GitHub release upload
ReleaseJob(c) ==
    << [k |-> "release", name |-> "release", runs_on |-> "ubuntu-latest",
        guard |-> "startsWith(github.ref, 'refs/tags/')", needs |-> Needs(c)] >>
    \o (IF ContainsEmscripten(c) THEN <<[k |-> "permissions", contents |-> "write"]>> ELSE <<>>)
    \o << [k |-> "download"],
          [k |-> "publish", args |-> <<"--non-interactive", "--skip-existing", "wheels-*/*">>] >>
    \o (IF ContainsEmscripten(c)
        THEN <<[k |-> "github-release", files |-> "wasm-wheels/*.whl"]>>
        ELSE <<>>)

----------------------------------------------------------------------------
(* The two generators *)

\* a call's return: Ok(conf), or the panic that unwinds out of it
Ok(conf) == [ok |-> TRUE, conf |-> conf]
Panic == [ok |-> FALSE, conf |-> <<>>]

\* the platform jobs, in order
PlatformJobs(c) ==
    LET jobs == JobPlatforms(c.platforms, c.bridge_model)
    IN [i \in DOMAIN jobs |-> PlatformJob(jobs[i], c)]

\* GenerateCI::generate_github
GenerateGithub(c) ==
    IF JobPlatforms(c.platforms, c.bridge_model) # <<>> /\ ChdirPanics(c.manifest_path)
    THEN Panic
    ELSE Ok(<<GithubHeader(c.argv)>> \o PlatformJobs(c) \o SdistJob(c) \o ReleaseJob(c))

\* GitlabJobs with publish not waiting for test
GitlabJobsPublishEarly ==
    << [k |-> "stages", stages |-> <<"test", "build", "release">>],
       [k |-> "gitlab-job", name |-> "test", stage |-> "test", needs |-> <<>>],
       [k |-> "gitlab-job", name |-> "build-linux", stage |-> "build", needs |-> <<"test">>],
       [k |-> "gitlab-job", name |-> "build-macos", stage |-> "build", needs |-> <<"test">>],
       [k |-> "gitlab-job", name |-> "build-windows", stage |-> "build", needs |-> <<"test">>],
       [k |-> "gitlab-job", name |-> "publish", stage |-> "release",
        needs |-> <<"build-linux", "build-macos", "build-windows">>] >>

\* the jobs of the fixed GitLab pipeline: name, stage, needs
GitlabJobs ==
    << [k |-> "stages", stages |-> <<"test", "build", "release">>],
       [k |-> "gitlab-job", name |-> "test", stage |-> "test", needs |-> <<>>],
       [k |-> "gitlab-job", name |-> "build-linux", stage |-> "build", needs |-> <<"test">>],
       [k |-> "gitlab-job", name |-> "build-macos", stage |-> "build", needs |-> <<"test">>],
       [k |-> "gitlab-job", name |-> "build-windows", stage |-> "build", needs |-> <<"test">>],
       [k |-> "gitlab-job", name |-> "publish", stage |-> "release",
        needs |-> <<"build-linux", "build-macos", "build-windows", "test">>] >>

\* GenerateCI::generate_gitlab
GenerateGitlab(c) ==
    Ok(<<[k |-> "header", version |-> "CARGO_PKG_VERSION", gen_cmd |-> GenCmd(c.argv, "gitlab")]>>
       \o GitlabJobs)

----------------------------------------------------------------------------
(* The state machine: a configured GenerateCI, then one call of a generator *)

\* manifest paths drawn: Cargo.toml, sub/Cargo.toml and / (which has no parent)
ManifestPaths ==
    { MkPath(FALSE, <<"Cargo.toml">>),
      MkPath(FALSE, <<"sub", "Cargo.toml">>),
      MkPath(TRUE, <<>>) }

\* Option<PathBuf>
ManifestOptions == {<<>>} \cup {<<p>> : p \in ManifestPaths}

\* the callers drawn: the project name a caller passes and the command line
\* of its process
Callers ==
    { [project_name |-> "example",
       argv |-> <<"/usr/bin/maturin", "generate-ci", "github", "-o", "ci.yml">>],
      [project_name |-> "other",
       argv |-> <<"maturin", "init">>] }

\* project names drawn
ProjectNames == {cl.project_name : cl \in Callers}

\* command lines drawn
Argvs == {cl.argv : cl \in Callers}

\* platform lists of length 0 .. MaxPlatforms
PlatformLists == UNION {[1..n -> Platform] : n \in 0..MaxPlatforms}

\* the configuration of the call, as one record
Config ==
    [platforms |-> platforms, pytest |-> pytest, zig |-> zig,
     manifest_path |-> manifest_path, project_name |-> project_name,
     bridge_model |-> bridge_model, sdist |-> sdist, argv |-> argv]

Init ==
    /\ platforms \in PlatformLists
    /\ pytest \in BOOLEAN
    /\ zig \in BOOLEAN
    /\ manifest_path \in ManifestOptions
    /\ \E cl \in Callers : project_name = cl.project_name /\ argv = cl.argv
    /\ bridge_model \in BridgeModel
    /\ sdist \in BOOLEAN
    /\ pc = "idle"
    /\ result = Ok(<<>>)

\* self.generate_github(project_name, &bridge, sdist)
CallGithub ==
    /\ pc = "idle"
    /\ pc' = "github"
    /\ result' = GenerateGithub(Config)
    /\ UNCHANGED <<platforms, pytest, zig, manifest_path, project_name,
                   bridge_model, sdist, argv>>

\* self.generate_gitlab(project_name, &bridge, sdist)
CallGitlab ==
    /\ pc = "idle"
    /\ pc' = "gitlab"
    /\ result' = GenerateGitlab(Config)
    /\ UNCHANGED <<platforms, pytest, zig, manifest_path, project_name,
                   bridge_model, sdist, argv>>

Next == CallGithub \/ CallGitlab

Spec == Init /\ [][Next]_vars

----------------------------------------------------------------------------
(* Reading a generated GitHub pipeline back *)

\* generate_github has returned a pipeline
Generated == pc = "github" /\ result.ok

\* the chunks of conf of kind kind, in order
OfKind(conf, kind) ==
    LET Is(x) == x.k = kind
    IN SelectSeq(conf, Is)

\* the platform jobs of conf, in order
EmittedJobs(conf) == OfKind(conf, "job")

\* the names of the platform jobs of conf, in order
JobNames(conf) ==
    LET jobs == EmittedJobs(conf)
    IN [n \in DOMAIN jobs |-> jobs[n].name]

\* the build arguments of a job
BuildArgs(job) == OfKind(job.steps, "build")[1].args

\* the release chunk of conf
ReleaseOf(conf) == OfKind(conf, "release")[1]

\* the platform jobs of the pipeline returned
Jobs == EmittedJobs(result.conf)

\* the output of generate_github on another configuration
Regenerate(c) == GenerateGithub(c)

----------------------------------------------------------------------------
(* C1..C10 *)

JobOrder == <<"linux", "musllinux", "windows", "macos", "emscripten">>

\* C1: when the requested platform list is exactly [All], a Bin bridge model
\* yields the platform jobs linux, musllinux, windows, macos and every other
\* bridge model yields those four plus emscripten.
C1_WildcardExpansion ==
    (Generated /\ platforms = <<"All">>) =>
        JobNames(result.conf) =
            IF bridge_model \in {"BinNone", "BinSome"}
            THEN <<"linux", "musllinux", "windows", "macos">>
            ELSE <<"linux", "musllinux", "windows", "macos", "emscripten">>

C1_Witness ==
    Generated /\ platforms = <<"All">> /\ bridge_model = "Cffi"
    /\ Len(JobNames(result.conf)) = 5

\* C2: for a Bin bridge model no emscripten job is emitted, whatever the
\* requested platform list, also when it names Emscripten.
C2_NoEmscriptenForBin ==
    (Generated /\ bridge_model \in {"BinNone", "BinSome"}) =>
        \A i \in DOMAIN result.conf :
            result.conf[i].k \in {"job", "sdist"} => result.conf[i].name # "emscripten"

C2_Witness ==
    Generated /\ bridge_model = "BinSome"
    /\ platforms = <<"Emscripten", "Windows">>
    /\ JobNames(result.conf) = <<"windows">>

\* C3: the release job's needs list is the names of the platform jobs as
\* emitted, in order, followed by "sdist" if and only if sdist is true.
C3_ReleaseNeeds ==
    Generated =>
        ReleaseOf(result.conf).needs =
            JobNames(result.conf) \o (IF sdist THEN <<"sdist">> ELSE <<>>)

C3_Witness ==
    Generated /\ sdist /\ bridge_model = "BinNone"
    /\ platforms = <<"Emscripten", "Macos">>
    /\ ReleaseOf(result.conf).needs = <<"macos", "sdist">>

\* C4: two calls with the same configuration (bridge model, project name,
\* sdist, platform list, pytest, zig, manifest path) return the same text:
\* the text returned does not depend on the arguments of the calling process.
C4_Deterministic ==
    /\ pc = "github" =>
         \A a \in Argvs : GenerateGithub([Config EXCEPT !.argv = a]) = result
    /\ pc = "gitlab" =>
         \A a \in Argvs : GenerateGitlab([Config EXCEPT !.argv = a]) = result

\* the requested platforms S as one list without repetition, ascending
Ascending(S) == BTreeIter(S)

\* C5: the platform jobs depend only on the set of requested platforms, not
\* on order or multiplicity (every list yields what the duplicate-free
\* ascending list of its elements yields); each platform yields at most one
\* job and the jobs appear in the order linux, musllinux, windows, macos,
\* emscripten.
C5_OrderIndependent ==
    Generated =>
        /\ Regenerate([Config EXCEPT !.platforms = Ascending(Range(platforms))]) = result
        /\ LET names == JobNames(result.conf)
           IN \E pos \in [DOMAIN names -> DOMAIN JobOrder] :
                 /\ \A n \in DOMAIN names : JobOrder[pos[n]] = names[n]
                 /\ \A m, n \in DOMAIN names : m < n => pos[m] < pos[n]

C5_Witness ==
    Generated /\ platforms = <<"Windows", "ManyLinux">>
    /\ JobNames(result.conf) = <<"linux", "windows">>

\* args without the word w
Without(args, w) ==
    LET Keep(x) == x # w
    IN SelectSeq(args, Keep)

\* steps with --zig removed from the arguments of every build step
StripZigSteps(steps) ==
    [i \in DOMAIN steps |->
        IF steps[i].k = "build"
        THEN [steps[i] EXCEPT !.args = Without(steps[i].args, "--zig")]
        ELSE steps[i]]

\* conf with --zig removed from the arguments of every build step
StripZig(conf) ==
    [i \in DOMAIN conf |->
        IF conf[i].k = "job"
        THEN [conf[i] EXCEPT !.steps = StripZigSteps(conf[i].steps)]
        ELSE conf[i]]

\* C6: the build arguments of a job contain --zig if and only if the zig flag
\* is set and the job is the linux job; toggling the zig flag changes nothing
\* else in the pipeline.
C6_ZigOnlyManyLinux ==
    Generated =>
        /\ \A job \in Range(Jobs) :
                 ("--zig" \in Range(BuildArgs(job))) <=> (zig /\ job.name = "linux")
        /\ LET other == Regenerate([Config EXCEPT !.zig = ~zig])
           IN other.ok /\ StripZig(other.conf) = StripZig(result.conf)

C6_Witness ==
    Generated /\ zig /\ platforms = <<"Musllinux", "ManyLinux">>
    /\ "--zig" \in Range(BuildArgs(Jobs[1]))
    /\ "--zig" \notin Range(BuildArgs(Jobs[2]))

\* C7: for BindingsAbi3, for any platform list and any flags, no job's build
\* step contains --find-interpreter.
C7_Abi3NoFindInterpreter ==
    (Generated /\ bridge_model = "BindingsAbi3") =>
        \A job \in Range(Jobs) :
            "--find-interpreter" \notin Range(BuildArgs(job))

C7_Witness ==
    Generated /\ bridge_model = "BindingsAbi3" /\ pytest
    /\ platforms = <<"All">>
    /\ BuildArgs(Jobs[1]) = <<"--release", "--out", "dist">>

\* the number of setup-python steps of a job
SetupPythonCount(job) == Len(OfKind(job.steps, "setup-python"))

\* C8 as stated: for BindingsAbi3 with sdist false, no setup-python step is
\* emitted in any non-Emscripten job.
C8_Abi3NoSetupPython ==
    (Generated /\ bridge_model = "BindingsAbi3" /\ ~sdist) =>
        \A job \in Range(Jobs) :
               job.name # "emscripten" => SetupPythonCount(job) = 0

\* C8 amended: for BindingsAbi3 with sdist false, for any platform list,
\* exactly one setup-python step is emitted in every non-Emscripten job.
C8_Abi3SetupPython ==
    (Generated /\ bridge_model = "BindingsAbi3" /\ ~sdist) =>
        \A job \in Range(Jobs) :
               job.name # "emscripten" => SetupPythonCount(job) = 1

C8_Witness ==
    Generated /\ bridge_model = "BindingsAbi3" /\ ~sdist /\ ~pytest
    /\ JobNames(result.conf) = <<"linux", "macos">>
    /\ SetupPythonCount(Jobs[2]) = 1

\* C9: in every non-Emscripten job exactly one setup-python step is emitted
\* when pytest is set or the bridge model is not Bin without bindings, and
\* none otherwise.
C9_SetupPythonRule ==
    Generated =>
        \A job \in Range(Jobs) :
               job.name # "emscripten" =>
                  SetupPythonCount(job) =
                      IF pytest \/ bridge_model # "BinNone" THEN 1 ELSE 0

C9_Witness ==
    Generated /\ bridge_model = "BinNone" /\ ~pytest
    /\ JobNames(result.conf) = <<"windows">>
    /\ SetupPythonCount(Jobs[1]) = 0

\* C10: generate_github and generate_gitlab return pipeline text and never
\* panic, for every configuration, also for a manifest path without parent.
C10_Total == pc # "idle" => result.ok

----------------------------------------------------------------------------
(* C11..C20 *)

\* C11: generation never runs with an empty platform selection, so every
\* generated GitHub pipeline contains at least one platform job.
C11_AtLeastOneJob ==
    pc = "github" => (platforms # <<>> /\ (result.ok => Len(Jobs) >= 1))

\* the position in conf of the only chunk of kind kind
IndexOf(conf, kind) == CHOOSE i \in DOMAIN conf : conf[i].k = kind

\* C12: the release job contains the GitHub release upload step if and only
\* if an emscripten job was emitted.
C12_ReleaseUploadIffEmscripten ==
    Generated =>
        (Len(OfKind(result.conf, "github-release")) = 1
            <=> "emscripten" \in Range(JobNames(result.conf)))

\* the targets of a job's matrix, in order
MatrixTargets(job) == [i \in DOMAIN job.matrix |-> job.matrix[i].target]

\* the runner labels of a job's matrix
MatrixRunners(job) == {job.matrix[i].runner : i \in DOMAIN job.matrix}

\* C13: the linux job's matrix is x86_64, x86, aarch64, armv7, s390x, ppc64le
\* on one runner label; windows is x64, x86 on one runner label; macos is
\* x86_64, aarch64 on two distinct runner labels; emscripten is one entry;
\* whatever the bridge model and the flags.
C13_MatrixTable ==
    Generated =>
        \A job \in Range(Jobs) :
            /\ job.name = "linux" =>
                  /\ MatrixTargets(job) = <<"x86_64", "x86", "aarch64", "armv7", "s390x", "ppc64le">>
                  /\ Cardinality(MatrixRunners(job)) = 1
            /\ job.name = "windows" =>
                  /\ MatrixTargets(job) = <<"x64", "x86">>
                  /\ Cardinality(MatrixRunners(job)) = 1
            /\ job.name = "macos" =>
                  /\ MatrixTargets(job) = <<"x86_64", "aarch64">>
                  /\ job.matrix[1].runner # job.matrix[2].runner
            /\ job.name = "emscripten" => Len(job.matrix) = 1

C13_Witness ==
    Generated /\ bridge_model = "BinNone" /\ pytest /\ zig
    /\ platforms = <<"Macos", "ManyLinux">>
    /\ Len(Jobs[1].matrix) = 6 /\ Len(Jobs[2].matrix) = 2

\* C14 as stated: the musllinux job's matrix targets are x86_64, aarch64 and
\* armv7; x86, s390x and ppc64le appear only in the linux job's matrix.
C14_MuslWithoutX86 ==
    Generated =>
        \A job \in Range(Jobs) :
            job.name = "musllinux" =>
                MatrixTargets(job) = <<"x86_64", "aarch64", "armv7">>

\* C14 amended: the musllinux job's matrix targets are x86_64, x86, aarch64
\* and armv7; s390x and ppc64le appear only in the linux job's matrix.
C14_MuslTargets ==
    Generated =>
        \A job \in Range(Jobs) :
            /\ job.name = "musllinux" =>
                  MatrixTargets(job) = <<"x86_64", "x86", "aarch64", "armv7">>
            /\ job.name # "linux" =>
                  Range(MatrixTargets(job)) \cap {"s390x", "ppc64le"} = {}

C14_Witness ==
    Generated /\ platforms = <<"Musllinux">>
    /\ "x86" \in Range(MatrixTargets(Jobs[1]))

\* the GitLab jobs of conf named name
GitlabJob(conf, name) ==
    LET Is(x) == x.k = "gitlab-job" /\ x.name = name
    IN SelectSeq(conf, Is)

\* C15: generate_gitlab returns one fixed pipeline whatever the bridge model,
\* sdist, platform list, pytest, zig, project name and manifest path: stages
\* test, build, release; build-linux, build-macos and build-windows each need
\* test; publish needs the three build jobs and test.
C15_GitlabFixed ==
    pc = "gitlab" =>
        /\ result.ok
        /\ result = GenerateGitlab([platforms |-> <<>>, pytest |-> FALSE, zig |-> FALSE,
                                    manifest_path |-> <<>>, project_name |-> "example",
                                    bridge_model |-> "Bindings", sdist |-> FALSE,
                                    argv |-> argv])
        /\ OfKind(result.conf, "stages")[1].stages = <<"test", "build", "release">>
        /\ \A b \in {"build-linux", "build-macos", "build-windows"} :
              /\ Len(GitlabJob(result.conf, b)) = 1
              /\ GitlabJob(result.conf, b)[1].needs = <<"test">>
        /\ Len(GitlabJob(result.conf, "publish")) = 1
        /\ GitlabJob(result.conf, "publish")[1].needs =
              <<"build-linux", "build-macos", "build-windows", "test">>

C15_Witness ==
    pc = "gitlab" /\ bridge_model = "BindingsAbi3" /\ pytest /\ zig /\ sdist
    /\ platforms = <<"Emscripten">> /\ manifest_path # <<>>
    /\ Len(GitlabJob(result.conf, "publish")) = 1

\* the kinds of a list of chunks, in order
Kinds(chunks) == [i \in DOMAIN chunks |-> chunks[i].k]

\* C16: a job named sdist is emitted if and only if sdist is true; it comes
\* after every platform job and before the release job, runs on the fixed
\* ubuntu-latest runner, has no matrix, and consists of checkout, one build
\* step and one upload step.
C16_SdistJob ==
    Generated =>
        /\ Len(OfKind(result.conf, "sdist")) = (IF sdist THEN 1 ELSE 0)
        /\ sdist =>
              LET i == IndexOf(result.conf, "sdist")
                  job == result.conf[i]
              IN /\ job.name = "sdist"
                 /\ \A j \in DOMAIN result.conf : result.conf[j].k = "job" => j < i
                 /\ i < IndexOf(result.conf, "release")
                 /\ job.runs_on = "ubuntu-latest"
                 /\ "matrix" \notin DOMAIN job
                 /\ Kinds(job.steps) = <<"checkout", "build-sdist", "upload">>

C16_Witness ==
    Generated /\ sdist /\ platforms = <<"Windows", "Macos">>
    /\ IndexOf(result.conf, "sdist") = 4

\* C17: every generated GitHub pipeline contains exactly one release job,
\* emitted last; it runs on tag references only and always contains an
\* artifact-download step followed by the index-publish step.
C17_ReleaseJob ==
    Generated =>
        /\ Len(OfKind(result.conf, "release")) = 1
        /\ Len(OfKind(result.conf, "download")) = 1
        /\ Len(OfKind(result.conf, "publish")) = 1
        /\ LET r == IndexOf(result.conf, "release")
           IN /\ result.conf[r].guard = "startsWith(github.ref, 'refs/tags/')"
              /\ \A j \in DOMAIN result.conf :
                    /\ result.conf[j].k \in {"header", "job", "sdist"} => j < r
                    /\ j > r => result.conf[j].k \in
                                  {"permissions", "download", "publish", "github-release"}
              /\ IndexOf(result.conf, "download") > r
              /\ IndexOf(result.conf, "publish") = IndexOf(result.conf, "download") + 1

C17_Witness ==
    Generated /\ sdist /\ bridge_model = "Cffi" /\ platforms = <<"All">>
    /\ Kinds(SubSeq(result.conf, 8, Len(result.conf))) =
          <<"release", "permissions", "download", "publish", "github-release">>

\* the names of all jobs of conf: platform jobs, sdist, release
AllJobNames(conf) ==
    LET Named(x) == x.k \in {"job", "sdist", "release"}
        named == SelectSeq(conf, Named)
    IN [i \in DOMAIN named |-> named[i].name]

\* C18: no two of the emitted platform jobs, the sdist job and the release
\* job share a name, for every platform list.
C18_UniqueJobNames ==
    Generated =>
        LET names == AllJobNames(result.conf)
        IN \A i, j \in DOMAIN names : i # j => names[i] # names[j]

C18_Witness ==
    Generated /\ sdist /\ bridge_model = "UniFfi"
    /\ platforms = <<"ManyLinux", "All">>
    /\ Len(AllJobNames(result.conf)) = 7

\* C19: no job named "all" is emitted: every emitted platform job is one of
\* the five concrete platforms and has a non-empty matrix.
C19_NoAllJob ==
    Generated =>
        \A job \in Range(Jobs) :
            /\ job.name # "all"
            /\ job.name \in {"linux", "musllinux", "windows", "macos", "emscripten"}
            /\ job.strategy
            /\ job.matrix # <<>>

C19_Witness ==
    Generated /\ bridge_model = "BinSome" /\ platforms = <<"Windows", "All">>
    /\ Len(Jobs) = 4

\* C20: in every non-Emscripten job the build arguments contain
\* --find-interpreter unless the bridge model is BindingsAbi3 or it is Bin and
\* no setup-python step was emitted; for Bin without bindings the flag is
\* present exactly when pytest is set.
C20_FindInterpreterRule ==
    Generated =>
        \A job \in Range(Jobs) :
            job.name # "emscripten" =>
                /\ ("--find-interpreter" \in Range(BuildArgs(job))) <=>
                      ~(\/ bridge_model = "BindingsAbi3"
                        \/ /\ bridge_model \in {"BinNone", "BinSome"}
                           /\ SetupPythonCount(job) = 0)
                /\ bridge_model = "BinNone" =>
                      (("--find-interpreter" \in Range(BuildArgs(job))) <=> pytest)

C20_Witness ==
    Generated /\ bridge_model = "BinNone" /\ pytest /\ platforms = <<"Macos">>
    /\ "--find-interpreter" \in Range(BuildArgs(Jobs[1]))

----------------------------------------------------------------------------
(* C21..C30 *)

\* args holds a directly followed by b
HasPair(args, a, b) ==
    \E i \in 1..(Len(args) - 1) : args[i] = a /\ args[i + 1] = b

\* the job named name among the emitted platform jobs, as a list of 0 or 1
JobNamed(name) ==
    LET Is(job) == job.name = name
    IN SelectSeq(Jobs, Is)

\* C21 as stated: every emitted Emscripten job's build step carries -i with
\* the Python version derived during setup instead of --find-interpreter,
\* for every bridge model under which an Emscripten job is emitted.
C21_EmscriptenExplicitAlways ==
    Generated =>
        \A job \in Range(Jobs) :
            job.name = "emscripten" =>
                /\ HasPair(BuildArgs(job), "-i", "env.PYTHON_VERSION")
                /\ "--find-interpreter" \notin Range(BuildArgs(job))

\* C21 amended: an emitted Emscripten job's build step never carries
\* --find-interpreter; it carries -i with the Python version derived during
\* setup for every bridge model except BindingsAbi3, for which it carries no
\* interpreter argument at all.
C21_EmscriptenExplicit ==
    Generated =>
        \A job \in Range(Jobs) :
            job.name = "emscripten" =>
                /\ "--find-interpreter" \notin Range(BuildArgs(job))
                /\ bridge_model # "BindingsAbi3" =>
                      /\ HasPair(BuildArgs(job), "-i", "env.PYTHON_VERSION")
                      /\ Len(OfKind(job.steps, "version-info")) = 1
                /\ bridge_model = "BindingsAbi3" => "-i" \notin Range(BuildArgs(job))

C21_Witness ==
    Generated /\ bridge_model = "UniFfi" /\ platforms = <<"Emscripten">>
    /\ BuildArgs(Jobs[1])[4] = "-i"

\* the kinds of chunks that are steps of their own; the other chunks
\* (architecture, manylinux, rust-toolchain) are `with:` entries of the step
\* before them
StepKinds ==
    {"checkout", "run", "version-info", "setup-emsdk", "setup-python",
     "build", "upload", "setup-node", "pytest"}

\* the steps of a job, without the `with:` entries
StepsOf(job) ==
    LET Is(x) == x.k \in StepKinds
    IN SelectSeq(job.steps, Is)

\* the pytest steps of a job
PytestSteps(job) == OfKind(job.steps, "pytest")

\* the `uses:` / shell of the pytest steps of a job, in order
Vias(job) == [i \in DOMAIN PytestSteps(job) |-> PytestSteps(job)[i].via]

\* C22: with pytest off no job contains a test step; with pytest on the
\* ManyLinux job has exactly two guarded test steps (host, then emulation),
\* the Musllinux job exactly two (container, then emulation), the Windows job
\* exactly one guarded step, the Macos job exactly one unguarded step, the
\* Emscripten job exactly one step directly preceded by the setup-node step;
\* no job carries the strategy of another platform.
C22_TestStrategy ==
    Generated =>
        \A job \in Range(Jobs) :
            LET tests == PytestSteps(job)
                steps == StepsOf(job)
                Guarded == \A i \in DOMAIN tests : tests[i].guard # ""
            IN /\ ~pytest => tests = <<>> /\ OfKind(job.steps, "setup-node") = <<>>
               /\ pytest =>
                     /\ job.name = "linux" =>
                           /\ Vias(job) = <<"bash", "uraimo/run-on-arch-action@v2">>
                           /\ tests[2].distro = "ubuntu22.04"
                           /\ Guarded
                     /\ job.name = "musllinux" =>
                           /\ Vias(job) = <<"addnab/docker-run-action@v3",
                                            "uraimo/run-on-arch-action@v2">>
                           /\ tests[1].distro = "alpine:latest"
                           /\ tests[2].distro = "alpine_latest"
                           /\ Guarded
                     /\ job.name = "windows" => Vias(job) = <<"bash">> /\ Guarded
                     /\ job.name = "macos" => Vias(job) = <<"">> /\ tests[1].guard = ""
                     /\ job.name = "emscripten" =>
                           /\ Vias(job) = <<"pyodide venv">>
                           /\ steps[Len(steps)].k = "pytest"
                           /\ steps[Len(steps) - 1].k = "setup-node"
                     /\ job.name # "emscripten" =>
                           OfKind(job.steps, "setup-node") = <<>>

C22_Witness ==
    Generated /\ pytest /\ platforms = <<"Macos", "ManyLinux">>
    /\ Len(PytestSteps(Jobs[1])) = 2 /\ Len(PytestSteps(Jobs[2])) = 1

\* the position of the only step of kind kind among steps
StepIndex(steps, kind) == CHOOSE i \in DOMAIN steps : steps[i].k = kind

\* C23: in every platform job the steps are, in this order, checkout, the
\* environment setup steps (if any), build, upload, the test steps (if any):
\* checkout is first, there is exactly one build and one upload step, the
\* upload step directly follows the build step, only setup steps stand
\* between checkout and build, and only test steps follow the upload step.
C23_StepOrder ==
    Generated =>
        \A job \in Range(Jobs) :
            LET steps == StepsOf(job)
                b == StepIndex(steps, "build")
                u == StepIndex(steps, "upload")
            IN /\ steps[1].k = "checkout"
               /\ Len(OfKind(steps, "checkout")) = 1
               /\ Len(OfKind(steps, "build")) = 1
               /\ Len(OfKind(steps, "upload")) = 1
               /\ u = b + 1
               /\ \A i \in DOMAIN steps :
                     /\ (1 < i /\ i < b) =>
                           steps[i].k \in {"run", "version-info", "setup-emsdk", "setup-python"}
                     /\ i > u => steps[i].k \in {"setup-node", "pytest"}
                     /\ steps[i].k \in {"setup-node", "pytest"} => i > u

C23_Witness ==
    Generated /\ pytest /\ bridge_model = "Cffi" /\ platforms = <<"Windows">>
    /\ Kinds(StepsOf(Jobs[1])) = <<"checkout", "setup-python", "build", "upload", "pytest">>

\* C24: every Emscripten job, whatever pytest and the bridge model, starts
\* after checkout with: install pyodide-build, derive EMSCRIPTEN_VERSION and
\* PYTHON_VERSION, install the SDK at env.EMSCRIPTEN_VERSION, select Python
\* at env.PYTHON_VERSION; the Python selection never precedes the version
\* derivation, and all of them precede the build step.
C24_EmscriptenSetupOrder ==
    Generated =>
        \A job \in Range(Jobs) :
            job.name = "emscripten" =>
                LET steps == StepsOf(job)
                    b == StepIndex(steps, "build")
                IN /\ b > 5
                   /\ Kinds(SubSeq(steps, 2, 5)) =
                         <<"run", "version-info", "setup-emsdk", "setup-python">>
                   /\ steps[2].cmd = "pip install pyodide-build"
                   /\ steps[3].sets = {"EMSCRIPTEN_VERSION", "PYTHON_VERSION"}
                   /\ steps[4].version = "env.EMSCRIPTEN_VERSION"
                   /\ steps[5].version = "env.PYTHON_VERSION"
                   /\ \A i \in DOMAIN steps :
                         steps[i].k \in {"setup-python", "setup-emsdk"} =>
                             StepIndex(steps, "version-info") < i /\ i < b

C24_Witness ==
    Generated /\ pytest /\ bridge_model = "BindingsAbi3"
    /\ platforms = <<"Emscripten">>
    /\ StepIndex(StepsOf(Jobs[1]), "build") = 7

\* the artifact name of the upload step of a job
UploadName(job) == OfKind(job.steps, "upload")[1].name

\* the directory part wheels-* of the glob wheels-*/* given to the publish
\* step: an artifact directory matches when its name begins with "wheels-"
MatchesPublishGlob(name) ==
    Len(name) >= 2 /\ name[1] = "wheels" /\ name[2] = "-"

\* C25: every non-Emscripten platform job uploads under
\* wheels-<job name>-<matrix target> and the sdist job under wheels-sdist,
\* which all match the glob wheels-*/* of the publish step; the Emscripten
\* job uploads under wasm-wheels, which that glob does not match, and the
\* publish step is given no other path.
C25_ArtifactNames ==
    Generated =>
        /\ \A job \in Range(Jobs) :
              IF job.name = "emscripten"
              THEN /\ UploadName(job) = <<"wasm-wheels">>
                   /\ ~MatchesPublishGlob(UploadName(job))
              ELSE /\ UploadName(job) =
                         <<"wheels", "-", job.name, "-", "matrix.platform.target">>
                   /\ MatchesPublishGlob(UploadName(job))
        /\ \A job \in Range(OfKind(result.conf, "sdist")) :
              /\ UploadName(job) = <<"wheels", "-", "sdist">>
              /\ MatchesPublishGlob(UploadName(job))
        /\ OfKind(result.conf, "publish")[1].args =
              <<"--non-interactive", "--skip-existing", "wheels-*/*">>

C25_Witness ==
    Generated /\ sdist /\ bridge_model = "Bindings"
    /\ platforms = <<"Emscripten", "Macos">>
    /\ UploadName(Jobs[1]) = <<"wheels", "-", "macos", "-", "matrix.platform.target">>
    /\ UploadName(Jobs[2]) = <<"wasm-wheels">>

\* the values of the `manylinux:` entries of a job's build step
ManylinuxTags(job) ==
    LET tags == OfKind(job.steps, "manylinux")
    IN [i \in DOMAIN tags |-> tags[i].value]

\* C26: the build step of the ManyLinux job declares the tag auto and the
\* build step of the Musllinux job the tag musllinux_1_2, each directly
\* under the build step; the Windows and Macos build steps declare no tag.
C26_ManylinuxTag ==
    Generated =>
        \A job \in Range(Jobs) :
            LET b == StepIndex(job.steps, "build")
            IN /\ job.name = "linux" =>
                     ManylinuxTags(job) = <<"auto">> /\ job.steps[b + 1].k = "manylinux"
               /\ job.name = "musllinux" =>
                     /\ ManylinuxTags(job) = <<"musllinux_1_2">>
                     /\ job.steps[b + 1].k = "manylinux"
               /\ job.name \in {"windows", "macos"} =>
                     ManylinuxTags(job) = <<>> /\ job.steps[b + 1].k = "upload"
               /\ \A other \in Range(Jobs) :
                     (other.name # job.name /\ ManylinuxTags(job) # <<>>)
                         => ManylinuxTags(other) # ManylinuxTags(job)

C26_Witness ==
    Generated /\ platforms = <<"Musllinux", "ManyLinux">>
    /\ ManylinuxTags(Jobs[1]) = <<"auto">>
    /\ ManylinuxTags(Jobs[2]) = <<"musllinux_1_2">>

\* C27: exactly when a manifest path is configured and differs from
\* Cargo.toml, every platform build step and the sdist build step carry
\* --manifest-path followed by that path, and every test command starts with
\* cd <directory of the manifest> &&; otherwise no build step carries
\* --manifest-path and no test command changes directory.
C27_ManifestPath ==
    Generated =>
        LET differs ==
                /\ manifest_path # <<>>
                /\ manifest_path[1] # [root |-> FALSE, comps |-> <<"Cargo.toml">>]
            Carries(args) ==
                /\ ("--manifest-path" \in Range(args)) <=> differs
                /\ differs =>
                      HasPair(args, "--manifest-path", PathDisplay(manifest_path[1]))
            dir == [manifest_path[1] EXCEPT
                       !.comps = SubSeq(@, 1, Len(@) - 1)]
        IN /\ \A job \in Range(Jobs) :
                 /\ Carries(BuildArgs(job))
                 /\ \A t \in Range(PytestSteps(job)) :
                       IF differs
                       THEN /\ Len(t.run) > 3
                            /\ SubSeq(t.run, 1, 3) = <<"cd", PathDisplay(dir), "&&">>
                       ELSE "cd" \notin Range(t.run)
           /\ \A job \in Range(OfKind(result.conf, "sdist")) :
                 Carries(OfKind(job.steps, "build-sdist")[1].args)

C27_Witness ==
    Generated /\ pytest /\ sdist /\ platforms = <<"Macos">>
    /\ manifest_path = <<[root |-> FALSE, comps |-> <<"sub", "Cargo.toml">>]>>
    /\ PytestSteps(Jobs[1])[1].run = <<"cd", <<"sub">>, "&&", "pytest">>
    /\ HasPair(BuildArgs(Jobs[1]), "--manifest-path", <<"sub", "/", "Cargo.toml">>)

\* the characters of the matrix targets and of the strings the guards
\* compare them with
Chars(s) ==
    CASE s = "x86_64" -> <<"x", "8", "6", "_", "6", "4">>
      [] s = "x86" -> <<"x", "8", "6">>
      [] s = "x64" -> <<"x", "6", "4">>
      [] s = "aarch64" -> <<"a", "a", "r", "c", "h", "6", "4">>
      [] s = "armv7" -> <<"a", "r", "m", "v", "7">>
      [] s = "s390x" -> <<"s", "3", "9", "0", "x">>
      [] s = "ppc64le" -> <<"p", "p", "c", "6", "4", "l", "e">>
      [] s = "ppc64" -> <<"p", "p", "c", "6", "4">>
      [] s = "wasm32-unknown-emscripten" ->
            <<"w", "a", "s", "m", "3", "2", "-", "u", "n", "k", "n", "o", "w", "n",
              "-", "e", "m", "s", "c", "r", "i", "p", "t", "e", "n">>

\* the workflow expression startsWith(s, prefix)
StartsWith(s, prefix) ==
    /\ Len(Chars(prefix)) <= Len(Chars(s))
    /\ SubSeq(Chars(s), 1, Len(Chars(prefix))) = Chars(prefix)

\* the value of a step's `if:` expression for a matrix target; a step
\* without `if:` always runs
GuardHolds(guard, target) ==
    CASE guard = "" -> TRUE
      [] guard = "startsWith(matrix.platform.target, 'x86_64')" ->
            StartsWith(target, "x86_64")
      [] guard = "!startsWith(matrix.platform.target, 'x86') && matrix.platform.target != 'ppc64'" ->
            ~StartsWith(target, "x86") /\ Chars(target) # Chars("ppc64")
      [] guard = "!startsWith(matrix.platform.target, 'x86')" ->
            ~StartsWith(target, "x86")
      [] guard = "!startsWith(matrix.platform.target, 'aarch64')" ->
            ~StartsWith(target, "aarch64")

\* the matrix targets of a job for which its i-th pytest step runs
TestedBy(job, i) ==
    {t \in Range(MatrixTargets(job)) : GuardHolds(PytestSteps(job)[i].guard, t)}

\* C28: with pytest on, for every job and every target of its matrix at most
\* one test step's guard is true; in the ManyLinux job the host step runs
\* for x86_64 only, the emulation step for aarch64, armv7, s390x and ppc64le,
\* and no step for x86; in the Musllinux job the container step runs for
\* x86_64 only and the emulation step for the targets not starting with x86;
\* in the Windows job the guard is true for every target of the matrix.
C28_GuardsPartition ==
    (Generated /\ pytest) =>
        \A job \in Range(Jobs) :
            LET targets == Range(MatrixTargets(job))
                tests == PytestSteps(job)
            IN /\ \A t \in targets :
                     Cardinality({i \in DOMAIN tests : GuardHolds(tests[i].guard, t)}) <= 1
               /\ job.name = "linux" =>
                     /\ TestedBy(job, 1) = {"x86_64"}
                     /\ TestedBy(job, 2) = {"aarch64", "armv7", "s390x", "ppc64le"}
                     /\ "x86" \in targets \ (TestedBy(job, 1) \cup TestedBy(job, 2))
               /\ job.name = "musllinux" =>
                     /\ TestedBy(job, 1) = {"x86_64"}
                     /\ TestedBy(job, 2) = {t \in targets : ~StartsWith(t, "x86")}
                     /\ TestedBy(job, 2) # {}
               /\ job.name = "windows" => TestedBy(job, 1) = targets /\ targets # {}

C28_Witness ==
    Generated /\ pytest /\ platforms = <<"ManyLinux", "Windows">>
    /\ Cardinality(TestedBy(Jobs[1], 2)) = 4
    /\ TestedBy(Jobs[2], 1) = {"x64", "x86"}

\* a chunk written by the pytest block
IsTestChunk(x) == x.k \in {"setup-node", "pytest"}

\* steps without the setup-python step and its architecture entry, and
\* without --find-interpreter in the build arguments
StripRuntime(steps) ==
    LET Keep(x) == x.k \notin {"setup-python", "architecture"}
        kept == SelectSeq(steps, Keep)
    IN [i \in DOMAIN kept |->
           IF kept[i].k = "build"
           THEN [kept[i] EXCEPT !.args = Without(kept[i].args, "--find-interpreter")]
           ELSE kept[i]]

\* the chunks of conf outside the platform jobs
OutsideJobs(conf) ==
    LET Is(x) == x.k # "job"
    IN SelectSeq(conf, Is)

\* C29: the pipelines generated with pytest off and with pytest on have the
\* same jobs in the same order with the same matrices and artifact names and
\* the same header, sdist job and release job; for every bridge model but
\* Bin(None) the steps of a job with pytest on are its steps with pytest off
\* followed by test steps only; for Bin(None) they are, in addition, given
\* the setup-python step and the --find-interpreter build argument.
C29_PytestFrame ==
    Generated =>
        LET other == Regenerate([Config EXCEPT !.pytest = ~pytest])
            on == IF pytest THEN result ELSE other
            off == IF pytest THEN other ELSE result
            onJobs == EmittedJobs(on.conf)
            offJobs == EmittedJobs(off.conf)
        IN /\ other.ok
           /\ Kinds(on.conf) = Kinds(off.conf)
           /\ OutsideJobs(on.conf) = OutsideJobs(off.conf)
           /\ Len(onJobs) = Len(offJobs)
           /\ \A i \in DOMAIN onJobs :
                 LET steps == onJobs[i].steps
                     n == Len(steps) - Len(SelectSeq(steps, IsTestChunk))
                     before == SubSeq(steps, 1, n)
                     added == SubSeq(steps, n + 1, Len(steps))
                 IN /\ [onJobs[i] EXCEPT !.steps = <<>>] = [offJobs[i] EXCEPT !.steps = <<>>]
                    /\ UploadName(onJobs[i]) = UploadName(offJobs[i])
                    /\ SelectSeq(offJobs[i].steps, IsTestChunk) = <<>>
                    /\ added # <<>>
                    /\ \A j \in DOMAIN added : IsTestChunk(added[j])
                    /\ before[n].k = "upload"
                    /\ IF bridge_model # "BinNone"
                       THEN before = offJobs[i].steps
                       ELSE /\ StripRuntime(before) = offJobs[i].steps
                            /\ SetupPythonCount(onJobs[i]) = 1
                            /\ SetupPythonCount(offJobs[i]) = 0
                            /\ "--find-interpreter" \in Range(BuildArgs(onJobs[i]))
                            /\ "--find-interpreter" \notin Range(BuildArgs(offJobs[i]))

C29_Witness ==
    Generated /\ pytest /\ bridge_model = "BinNone" /\ sdist
    /\ platforms = <<"Windows", "ManyLinux">>
    /\ Len(Jobs[2].steps) = Len(EmittedJobs(Regenerate([Config EXCEPT !.pytest = FALSE]).conf)[2].steps) + 3

\* conf without the sdist job and without the needs list of the release job
OutsideSdist(conf) ==
    LET Keep(x) == x.k # "sdist"
        kept == SelectSeq(conf, Keep)
    IN [i \in DOMAIN kept |->
           IF kept[i].k = "release" THEN [kept[i] EXCEPT !.needs = <<>>] ELSE kept[i]]

\* C30: the pipelines generated with sdist off and with sdist on differ only
\* in the sdist job and in "sdist" at the end of the needs list of the
\* release job, every platform job being the same; and with pytest off the
\* pipeline is the same for every project name.
C30_SdistFrame ==
    Generated =>
        LET other == Regenerate([Config EXCEPT !.sdist = ~sdist])
            on == IF sdist THEN result ELSE other
            off == IF sdist THEN other ELSE result
        IN /\ other.ok
           /\ EmittedJobs(on.conf) = EmittedJobs(off.conf)
           /\ Len(OfKind(on.conf, "sdist")) = 1
           /\ OfKind(off.conf, "sdist") = <<>>
           /\ ReleaseOf(on.conf).needs = ReleaseOf(off.conf).needs \o <<"sdist">>
           /\ "sdist" \notin Range(ReleaseOf(off.conf).needs)
           /\ OutsideSdist(on.conf) = OutsideSdist(off.conf)
           /\ ~pytest =>
                 \A name \in ProjectNames \ {project_name} :
                     Regenerate([Config EXCEPT !.project_name = name]) = result

C30_Witness ==
    Generated /\ sdist /\ ~pytest /\ project_name = "other"
    /\ platforms = <<"Macos", "Windows">>
    /\ ReleaseOf(result.conf).needs = <<"windows", "macos", "sdist">>
    /\ Regenerate([Config EXCEPT !.project_name = "example"]) = result

====
